---- MODULE Spec2Model ----
(***************************************************************************)
(* A model of src/main.rs: the borrow/lend game.  A population of agents   *)
(* is built by gen_agents from a roster of (strategy factory, count)       *)
(* pairs; simulate then runs a fixed number of rounds, each one a report,  *)
(* the all-pairs encounters (alice lends to bob, then bob lends to alice)  *)
(* and the removal of the agents whose energy is not positive.             *)
(*                                                                         *)
(* Energies and reputation scores are f64 in the source.  Every value the  *)
(* program computes is 256 plus a sum of the four integer payouts, far     *)
(* below 2^53, so f64 arithmetic on them is exact and they are modelled as *)
(* integers.                                                               *)
(***************************************************************************)
EXTENDS Integers, Sequences, FiniteSets

(***************************************************************************)
(* Bounds of the model.                                                    *)
(***************************************************************************)
\* the longest roster (number of (factory, count) pairs) handed to gen_agents
MaxGroups == 2
\* the largest count of one roster entry
MaxCount == 3
\* the largest value of simulate's rounds argument
MaxRounds == 2
\* the largest peer id used when the methods of a strategy are called directly
MaxPeer == 1
\* the largest size of a reputation score when the methods of a strategy are
\* called directly
MaxScore == 7
\* the largest value of simulate's rounds argument in the runs whose
\* never-accept/always-defect agents never draw an acceptance or a cooperation
MaxScriptedRounds == 3
\* rng.gen::<f32>() is uniform over the multiples of 2^-24 in [0, 1); the
\* model draws from the multiples of 1/DrawSteps in [0, 1)
DrawSteps == 3

(***************************************************************************)
(* GameParams (the constant GP).                                           *)
(***************************************************************************)
borrower_defect_payout == 6
borrower_coop_payout == 3
lender_defect_payout == -7
lender_coop_payout == -1

ACCEPT == TRUE
REJECT == FALSE
COOP == TRUE

\* the energy gen_agents gives every agent
InitialEnergy == 256

\* The draws of rng.gen::<f32>(): the draw d stands for the value d / DrawSteps.
Draws == 0 .. (DrawSteps - 1)

\* Probabilities are kept in percent: 0 is 0.0, 50 is 0.5.
\* draw <= prob, for the draw d / DrawSteps and the probability prob / 100
DrawAtMost(d, prob) == 100 * d <= prob * DrawSteps

(***************************************************************************)
(* The strategies.  A strategy is a record; the fields a variant does not  *)
(* have are left at a fixed value.                                         *)
(***************************************************************************)
NoReputations == [p \in {} |-> 0]

ReputationTracker_new(optimistic) ==
    [variant |-> "ReputationTracker",
     reputations |-> NoReputations,
     optimistic |-> optimistic,
     accept_prob |-> 0,
     coop_prob |-> 0,
     type_name |-> "reputation tracker"]

RandomStrategy_new(accept_prob, coop_prob, type_name) ==
    [variant |-> "RandomStrategy",
     reputations |-> NoReputations,
     optimistic |-> FALSE,
     accept_prob |-> accept_prob,
     coop_prob |-> coop_prob,
     type_name |-> type_name]

\* AddScore inserting the delta over the score of a present key
AddScore_inserting(reputations, peer, delta) ==
    [p \in (DOMAIN reputations) \cup {peer} |->
        IF p = peer THEN delta ELSE reputations[p]]

\* HashMap: *r += delta for a present key, insert(key, delta) for an absent one
AddScore(reputations, peer, delta) ==
    [p \in (DOMAIN reputations) \cup {peer} |->
        IF p = peer
        THEN IF peer \in DOMAIN reputations
             THEN reputations[peer] + delta
             ELSE delta
        ELSE reputations[p]]

\* accept_or_reject_request rejecting a peer it holds no score for, whatever
\* optimistic is
ReputationTracker_reject_unrecorded(self, borrower) ==
    IF borrower \in DOMAIN self.reputations
    THEN IF self.reputations[borrower] > 0
            \/ (self.reputations[borrower] = 0 /\ self.optimistic)
         THEN ACCEPT
         ELSE REJECT
    ELSE REJECT

\* accept_or_reject_request accepting a peer it holds no score for, whatever
\* optimistic is
ReputationTracker_accept_unrecorded(self, borrower) ==
    IF borrower \in DOMAIN self.reputations
    THEN IF self.reputations[borrower] > 0
            \/ (self.reputations[borrower] = 0 /\ self.optimistic)
         THEN ACCEPT
         ELSE REJECT
    ELSE ACCEPT

\* accept_or_reject_request accepting a score of 0 whatever optimistic is
ReputationTracker_accept_from_zero(self, borrower) ==
    IF borrower \in DOMAIN self.reputations
    THEN IF self.reputations[borrower] >= 0 THEN ACCEPT ELSE REJECT
    ELSE IF self.optimistic THEN ACCEPT ELSE REJECT

ReputationTracker_accept_or_reject_request(self, borrower) ==
    IF borrower \in DOMAIN self.reputations
    THEN IF self.reputations[borrower] > 0
            \/ (self.reputations[borrower] = 0 /\ self.optimistic)
         THEN ACCEPT
         ELSE REJECT
    ELSE IF self.optimistic THEN ACCEPT ELSE REJECT

\* coop_or_defect defecting on a lender it holds a negative score for
ReputationTracker_coop_or_defect_revenge(self, lender) ==
    [strategy |-> [self EXCEPT !.reputations =
                        AddScore(self.reputations, lender, borrower_coop_payout)],
     action |-> IF lender \in DOMAIN self.reputations
                THEN self.reputations[lender] >= 0
                ELSE COOP]

\* returns the strategy after the call and the action it chose
ReputationTracker_coop_or_defect(self, lender) ==
    [strategy |-> [self EXCEPT !.reputations =
                        AddScore(self.reputations, lender, borrower_coop_payout)],
     action |-> COOP]

\* notify_coop_or_defect charging the defect payout whatever the outcome
ReputationTracker_notify_always_defect(self, borrower, coop) ==
    LET penalty == lender_defect_payout
    IN  [self EXCEPT !.reputations = AddScore(self.reputations, borrower, penalty)]

ReputationTracker_notify_coop_or_defect(self, borrower, coop) ==
    LET penalty == IF coop THEN lender_coop_payout ELSE lender_defect_payout
    IN  [self EXCEPT !.reputations = AddScore(self.reputations, borrower, penalty)]

RandomStrategy_accept_or_reject_request(self, borrower, draw) ==
    DrawAtMost(draw, self.accept_prob)

RandomStrategy_coop_or_defect(self, lender, draw) ==
    [strategy |-> self, action |-> DrawAtMost(draw, self.coop_prob)]

(***************************************************************************)
(* The Strategy trait: dynamic dispatch on the variant.                    *)
(***************************************************************************)
\* accept_or_reject_request with a tracker deciding by a draw about a peer
\* it holds no score for
accept_or_reject_request_coin(self, borrower, draw) ==
    IF self.variant = "ReputationTracker"
    THEN IF borrower \in DOMAIN self.reputations
         THEN ReputationTracker_accept_or_reject_request(self, borrower)
         ELSE DrawAtMost(draw, 50)
    ELSE RandomStrategy_accept_or_reject_request(self, borrower, draw)

accept_or_reject_request(self, borrower, draw) ==
    IF self.variant = "ReputationTracker"
    THEN ReputationTracker_accept_or_reject_request(self, borrower)
    ELSE RandomStrategy_accept_or_reject_request(self, borrower, draw)

\* notify_about_rejection taking the rejection for a defection of the lender
notify_about_rejection_penalising(self, lender) ==
    IF self.variant = "ReputationTracker"
    THEN [self EXCEPT !.reputations =
              AddScore(self.reputations, lender, lender_defect_payout)]
    ELSE self

\* both implementations have an empty body
notify_about_rejection(self, lender) == self

coop_or_defect(self, lender, draw) ==
    IF self.variant = "ReputationTracker"
    THEN ReputationTracker_coop_or_defect(self, lender)
    ELSE RandomStrategy_coop_or_defect(self, lender, draw)

notify_coop_or_defect(self, borrower, coop) ==
    IF self.variant = "ReputationTracker"
    THEN ReputationTracker_notify_coop_or_defect(self, borrower, coop)
    ELSE self

get_type(self) == self.type_name

(***************************************************************************)
(* The strategy factories of main, and ReputationTracker::new(false).      *)
(***************************************************************************)
Factories == {"reptrack", "reptrack_pessimistic", "never_accept_always_defect", "random"}

MakeStrategy(factory) ==
    CASE factory = "reptrack" -> ReputationTracker_new(TRUE)
      [] factory = "reptrack_pessimistic" -> ReputationTracker_new(FALSE)
      [] factory = "never_accept_always_defect" ->
            RandomStrategy_new(0, 0, "never accept, always defect")
      [] factory = "random" -> RandomStrategy_new(50, 50, "random 50/50")

(***************************************************************************)
(* gen_agents.  GenGroups is the outer loop from the k-th roster entry on, *)
(* with the values of last_id, id and agents at that point.                *)
(***************************************************************************)
Agent(strategy, energy, id) == [strategy |-> strategy, energy |-> energy, id |-> id]

RECURSIVE GenGroups(_, _, _, _, _)
GenGroups(agent_definitions, k, last_id, id, agents) ==
    IF k > Len(agent_definitions)
    THEN agents
    ELSE LET agent_def == agent_definitions[k]
             count == agent_def[2]
             pushed == [i \in 1 .. count |->
                          Agent(MakeStrategy(agent_def[1]), InitialEnergy,
                                (i - 1) + last_id)]
             new_id == IF count > 0 THEN (count - 1) + last_id ELSE id
         IN  GenGroups(agent_definitions, k + 1, new_id, new_id, agents \o pushed)

gen_agents(agent_definitions) == GenGroups(agent_definitions, 1, 0, 0, << >>)

(***************************************************************************)
(* encounter.  lender and borrower are positions in the population, dl is  *)
(* the draw the lender's accept_or_reject_request may make and db the draw *)
(* the borrower's coop_or_defect may make.  The result is the population   *)
(* after the call with the two decisions taken.                            *)
(***************************************************************************)
\* lender_gain with the two payouts taken the wrong way round
lender_gain_swapped(coop) ==
    IF coop = COOP THEN lender_defect_payout ELSE lender_coop_payout

\* the energy the lender gains in an accepted encounter
lender_gain(coop) ==
    IF coop = COOP THEN lender_coop_payout ELSE lender_defect_payout

\* the energy the borrower gains in an accepted encounter
borrower_gain(coop) ==
    IF coop = COOP THEN borrower_coop_payout ELSE borrower_defect_payout

encounter(population, lender, borrower, dl, db) ==
    LET L == population[lender]
        B == population[borrower]
    IN  IF accept_or_reject_request(L.strategy, B.id, dl) = ACCEPT
        THEN LET decision == coop_or_defect(B.strategy, L.id, db)
                 coop == decision.action
                 lstrategy == notify_coop_or_defect(L.strategy, B.id, coop)
                 lgain == lender_gain(coop)
                 bgain == borrower_gain(coop)
             IN  [agents |-> [population EXCEPT
                                ![lender] = [strategy |-> lstrategy,
                                             energy |-> L.energy + lgain,
                                             id |-> L.id],
                                ![borrower] = [strategy |-> decision.strategy,
                                               energy |-> B.energy + bgain,
                                               id |-> B.id]],
                  accepted |-> TRUE,
                  coop |-> coop]
        ELSE [agents |-> [population EXCEPT
                            ![borrower] = [strategy |->
                                              notify_about_rejection(B.strategy, L.id),
                                           energy |-> B.energy,
                                           id |-> B.id]],
              accepted |-> FALSE,
              coop |-> FALSE]

\* the test of retain with >= for >
AliveAtZero(agent) == agent.energy >= 0

\* agents.retain(|agent| agent.energy > 0.)
Alive(agent) == agent.energy > 0
retain(population) == SelectSeq(population, Alive)

(***************************************************************************)
(* report: for each strategy label present, the count of agents and the    *)
(* sum of their energies (the mean printed is sum / count).                *)
(***************************************************************************)
RECURSIVE SumEnergy(_, _, _)
SumEnergy(population, st, k) ==
    IF k > Len(population)
    THEN 0
    ELSE (IF get_type(population[k].strategy) = st THEN population[k].energy ELSE 0)
         + SumEnergy(population, st, k + 1)

report(population) ==
    LET keys == {get_type(population[k].strategy) : k \in DOMAIN population}
    IN  [st \in keys |->
            [count |-> Cardinality({k \in DOMAIN population :
                                       get_type(population[k].strategy) = st}),
             sum |-> SumEnergy(population, st, 1)]]

(***************************************************************************)
(* The state.                                                              *)
(*   agent_definitions  the roster main hands to gen_agents (moved into    *)
(*                      the call, so empty afterwards)                     *)
(*   rounds             simulate's rounds argument                         *)
(*   agents             the population                                     *)
(*   pc                 where the program is: "gen" before gen_agents,     *)
(*                      "report" at the top of a round, "alice_bob" and    *)
(*                      "bob_alice" before the two encounters of a pair,   *)
(*                      "retain" after the pairs, "done" after the loop    *)
(*   round              the round loop's variable                          *)
(*   i, bob             the pair loops: alice is agents[i] (the last of    *)
(*                      the left part of split_at_mut(i), positions from   *)
(*                      1), bob runs over the right part                   *)
(*   last               the last encounter: who lent, who borrowed, and    *)
(*                      the two decisions                                  *)
(*   log                the (lender, borrower) positions of the encounters *)
(*                      made so far in the current round                   *)
(*   reports            the number of reports printed so far; the report   *)
(*                      of a round is report(agents) at pc = "report"      *)
(*   defects            for each agent, the peer ids its ReputationTracker *)
(*                      was told a defection of                            *)
(*                      (notify_coop_or_defect(id, false), which is empty  *)
(*                      for a RandomStrategy)                              *)
(*   removed            the agents the last retain dropped                 *)
(*   call               the last direct call of a method of a strategy:    *)
(*                      the method, its arguments and what it returned     *)
(*   twin               the population of a second run of the program from *)
(*                      the same roster, with draws of its own, when two   *)
(*                      runs are compared                                  *)
(*   origin             for each agent, its position in the population as  *)
(*                      gen_agents built it (ids may repeat, positions at  *)
(*                      generation do not)                                 *)
(*   dead               the origins of the agents whose energy was 0 or    *)
(*                      less when the pairs of a round were done           *)
(*   tally              for each agent and each peer id: how often it      *)
(*                      borrowed from a lender of that id (accepted        *)
(*                      encounters), and how often its strategy was told,  *)
(*                      as lender, of a cooperation and of a defection of  *)
(*                      a borrower of that id                              *)
(*   robbed             the pairs (origin of a lender, origin of a         *)
(*                      borrower) such that the borrower defected on the   *)
(*                      lender                                             *)
(***************************************************************************)
VARIABLES agent_definitions, rounds, agents, pc, round, i, bob, last, log,
          reports, defects, removed, call, twin, origin, dead, tally, robbed

history == <<origin, dead, tally, robbed>>

vars == <<agent_definitions, rounds, agents, pc, round, i, bob, last, log,
          reports, defects, removed, call, history>>

allvars == <<vars, twin>>

RECURSIVE Total(_)
Total(defs) == IF defs = << >> THEN 0 ELSE Head(defs)[2] + Total(Tail(defs))

RandomFactories == {"never_accept_always_defect", "random"}

RECURSIVE TotalRandom(_)
TotalRandom(defs) ==
    IF defs = << >>
    THEN 0
    ELSE (IF Head(defs)[1] \in RandomFactories THEN Head(defs)[2] ELSE 0)
         + TotalRandom(Tail(defs))

AgentDefinition == Factories \X (0 .. MaxCount)

\* The populations explored have up to three agents; those of three agents
\* have at most one RandomStrategy among them.
PopulationSizes == {0, 1, 2, 3}

Rosters ==
    {defs \in UNION {[1 .. n -> AgentDefinition] : n \in 0 .. MaxGroups} :
        /\ Total(defs) \in PopulationSizes
        /\ TotalRandom(defs) <= 1 \/ Total(defs) <= 2}

NoEncounter == [lender |-> 0, borrower |-> 0, accepted |-> FALSE, coop |-> FALSE]
NoCall == [method |-> "none", peer |-> 0, draw |-> 0, coop |-> FALSE, returned |-> FALSE]

\* nothing counted yet, for the peer ids of a population
NoTally(population) ==
    [k \in DOMAIN population |->
        [p \in {population[j].id : j \in DOMAIN population} |->
            [borrowed |-> 0, coop |-> 0, defect |-> 0]]]

\* the loop's test giving up once the population is empty
RoundPcWhilePopulated(r) ==
    IF r < rounds /\ agents # << >> THEN "report" ELSE "done"

\* for round in 0..rounds: the loop's test with the loop variable at r
RoundPc(r) == IF r < rounds THEN "report" ELSE "done"

\* main before gen_agents
Init ==
    /\ agent_definitions \in Rosters
    /\ rounds \in 0 .. MaxRounds
    /\ agents = << >>
    /\ pc = "gen"
    /\ round = 0
    /\ i = 0
    /\ bob = 0
    /\ last = NoEncounter
    /\ log = << >>
    /\ reports = 0
    /\ defects = << >>
    /\ removed = << >>
    /\ call = NoCall
    /\ twin = << >>
    /\ origin = << >>
    /\ dead = {}
    /\ tally = << >>
    /\ robbed = {}

\* let mut agents = gen_agents(...); simulate(&mut agents, rounds) is entered
Gen ==
    /\ pc = "gen"
    /\ agents' = gen_agents(agent_definitions)
    /\ defects' = [k \in DOMAIN agents' |-> {}]
    /\ agent_definitions' = << >>
    /\ pc' = RoundPc(0)
    /\ origin' = [k \in DOMAIN agents' |-> k]
    /\ tally' = NoTally(agents')
    /\ UNCHANGED <<rounds, round, i, bob, last, log, reports, removed, call, twin,
                   dead, robbed>>

\* Report printing nothing for a round that starts with no agent
ReportPopulated ==
    /\ pc = "report"
    /\ reports' = IF agents = << >> THEN reports ELSE reports + 1
    /\ log' = << >>
    /\ IF Len(agents) >= 2
       THEN /\ pc' = "alice_bob"
            /\ i' = 1
            /\ bob' = 2
       ELSE /\ pc' = "retain"
            /\ UNCHANGED <<i, bob>>
    /\ UNCHANGED <<agent_definitions, rounds, agents, round, last, defects, removed,
                   call, twin, history>>

\* println!("Round {}.", round); report(agents); then the pair loops are entered:
\* for i in 1..agents.len() has a first value iff agents.len() >= 2
Report ==
    /\ pc = "report"
    /\ report(agents) \in [DOMAIN report(agents) -> [count : Nat, sum : Int]]
    /\ reports' = reports + 1
    /\ log' = << >>
    /\ IF Len(agents) >= 2
       THEN /\ pc' = "alice_bob"
            /\ i' = 1
            /\ bob' = 2
       ELSE /\ pc' = "retain"
            /\ UNCHANGED <<i, bob>>
    /\ UNCHANGED <<agent_definitions, rounds, agents, round, last, defects, removed,
                   call, twin, history>>

\* one call of encounter, with the draws its strategies may make
Encounter(lender, borrower) ==
    \E dl \in Draws, db \in Draws :
        LET r == encounter(agents, lender, borrower, dl, db)
        IN  /\ agents' = r.agents
            /\ last' = [lender |-> lender, borrower |-> borrower,
                        accepted |-> r.accepted, coop |-> r.coop]
            /\ log' = Append(log, <<lender, borrower>>)
            /\ defects' = IF /\ r.accepted
                             /\ r.coop # COOP
                             /\ agents[lender].strategy.variant = "ReputationTracker"
                          THEN [defects EXCEPT ![lender] = @ \cup {agents[borrower].id}]
                          ELSE defects
            /\ tally' = IF r.accepted
                        THEN [tally EXCEPT
                                ![borrower][agents[lender].id].borrowed = @ + 1,
                                ![lender][agents[borrower].id].coop =
                                    IF r.coop = COOP THEN @ + 1 ELSE @,
                                ![lender][agents[borrower].id].defect =
                                    IF r.coop = COOP THEN @ ELSE @ + 1]
                        ELSE tally
            /\ robbed' = IF r.accepted /\ r.coop # COOP
                         THEN robbed \cup {<<origin[lender], origin[borrower]>>}
                         ELSE robbed
            /\ UNCHANGED <<origin, dead>>

\* encounter(alice, bob)
AliceBob ==
    /\ pc = "alice_bob"
    /\ Encounter(i, bob)
    /\ pc' = "bob_alice"
    /\ UNCHANGED <<agent_definitions, rounds, round, i, bob, reports, removed, call, twin>>

\* after a pair: the next bob of the inner loop, or the next i of the outer
\* loop with its first bob, or the end of the pairs
PairsGoOn ==
    IF bob < Len(agents)
    THEN /\ bob' = bob + 1
         /\ pc' = "alice_bob"
         /\ UNCHANGED i
    ELSE IF i + 1 < Len(agents)
         THEN /\ i' = i + 1
              /\ bob' = i + 2
              /\ pc' = "alice_bob"
         ELSE /\ pc' = "retain"
              /\ UNCHANGED <<i, bob>>

\* BobAlice with the roles not swapped: encounter(alice, bob) a second time
BobAliceSameRoles ==
    /\ pc = "bob_alice"
    /\ Encounter(i, bob)
    /\ PairsGoOn
    /\ UNCHANGED <<agent_definitions, rounds, round, reports, removed, call, twin>>

\* encounter(bob, alice), then the next bob, the next i, or the end of the pairs
BobAlice ==
    /\ pc = "bob_alice"
    /\ Encounter(bob, i)
    /\ PairsGoOn
    /\ UNCHANGED <<agent_definitions, rounds, round, reports, removed, call, twin>>

\* the positions retain keeps
Kept(population) == {k \in DOMAIN population : Alive(population[k])}

RECURSIVE KeepAt(_, _, _)
\* the entries of seq at the positions of keep from k on, in order
KeepAt(seq, keep, k) ==
    IF k > Len(seq)
    THEN << >>
    ELSE (IF k \in keep THEN <<seq[k]>> ELSE << >>) \o KeepAt(seq, keep, k + 1)

\* agents.retain(|agent| agent.energy > 0.); the round loop goes on
Retain ==
    /\ pc = "retain"
    /\ agents' = retain(agents)
    /\ defects' = KeepAt(defects, Kept(agents), 1)
    /\ removed' = KeepAt(agents, DOMAIN agents \ Kept(agents), 1)
    /\ origin' = KeepAt(origin, Kept(agents), 1)
    /\ tally' = KeepAt(tally, Kept(agents), 1)
    /\ dead' = dead \cup {origin[k] : k \in {j \in DOMAIN agents : agents[j].energy <= 0}}
    /\ UNCHANGED robbed
    /\ round' = round + 1
    /\ pc' = RoundPc(round + 1)
    /\ UNCHANGED <<agent_definitions, rounds, i, bob, last, log, reports, call, twin>>

Next == Gen \/ Report \/ AliceBob \/ BobAlice \/ Retain

Spec == Init /\ [][Next]_allvars

(***************************************************************************)
(* simulate entered with a population late in its life: the agents are     *)
(* those gen_agents builds, all with the same little energy, so that       *)
(* agents reach zero and are removed within a few rounds.                  *)
(***************************************************************************)
SimEnergies == {1, 7}

InitSim ==
    /\ agent_definitions = << >>
    /\ rounds \in 0 .. MaxRounds
    /\ \E defs \in Rosters, energy \in SimEnergies :
          agents = [k \in 1 .. Total(defs) |->
                      [gen_agents(defs)[k] EXCEPT !.energy = energy]]
    /\ pc = RoundPc(0)
    /\ round = 0
    /\ i = 0
    /\ bob = 0
    /\ last = NoEncounter
    /\ log = << >>
    /\ reports = 0
    /\ defects = [k \in DOMAIN agents |-> {}]
    /\ removed = << >>
    /\ call = NoCall
    /\ twin = << >>
    /\ origin = [k \in DOMAIN agents |-> k]
    /\ dead = {}
    /\ tally = NoTally(agents)
    /\ robbed = {}

NextSim == Report \/ AliceBob \/ BobAlice \/ Retain

SpecSim == InitSim /\ [][NextSim]_allvars

\* The program is sequential and runs on until simulate returns.
FairSim == SpecSim /\ WF_allvars(NextSim)

(***************************************************************************)
(* Two runs of the program from the same roster of reputation trackers and *)
(* the same round count, side by side.  The second run's population is     *)
(* twin, and its strategies make draws of their own.  The runs are         *)
(* compared state by state, so the second run follows the first through    *)
(* the loops for as long as the two populations have the same length.      *)
(***************************************************************************)
InitTwin == Init /\ TotalRandom(agent_definitions) = 0

SameLength == Len(twin) = Len(agents)

TwinGen ==
    /\ pc = "gen"
    /\ agents' = gen_agents(agent_definitions)
    /\ twin' = gen_agents(agent_definitions)
    /\ defects' = [k \in DOMAIN agents' |-> {}]
    /\ agent_definitions' = << >>
    /\ pc' = RoundPc(0)
    /\ origin' = [k \in DOMAIN agents' |-> k]
    /\ tally' = NoTally(agents')
    /\ UNCHANGED <<rounds, round, i, bob, last, log, reports, removed, call,
                   dead, robbed>>

TwinReport == SameLength /\ Report

TwinEncounter(lender, borrower) ==
    \E dl \in Draws, db \in Draws :
        twin' = encounter(twin, lender, borrower, dl, db).agents

TwinAliceBob ==
    /\ SameLength
    /\ pc = "alice_bob"
    /\ Encounter(i, bob)
    /\ TwinEncounter(i, bob)
    /\ pc' = "bob_alice"
    /\ UNCHANGED <<agent_definitions, rounds, round, i, bob, reports, removed, call>>

TwinBobAlice ==
    /\ SameLength
    /\ pc = "bob_alice"
    /\ Encounter(bob, i)
    /\ TwinEncounter(bob, i)
    /\ PairsGoOn
    /\ UNCHANGED <<agent_definitions, rounds, round, reports, removed, call>>

TwinRetain ==
    /\ SameLength
    /\ pc = "retain"
    /\ agents' = retain(agents)
    /\ twin' = retain(twin)
    /\ defects' = KeepAt(defects, Kept(agents), 1)
    /\ removed' = KeepAt(agents, DOMAIN agents \ Kept(agents), 1)
    /\ origin' = KeepAt(origin, Kept(agents), 1)
    /\ tally' = KeepAt(tally, Kept(agents), 1)
    /\ dead' = dead \cup {origin[k] : k \in {j \in DOMAIN agents : agents[j].energy <= 0}}
    /\ UNCHANGED robbed
    /\ round' = round + 1
    /\ pc' = RoundPc(round + 1)
    /\ UNCHANGED <<agent_definitions, rounds, i, bob, last, log, reports, call>>

NextTwin == TwinGen \/ TwinReport \/ TwinAliceBob \/ TwinBobAlice \/ TwinRetain

SpecTwin == InitTwin /\ [][NextTwin]_allvars

(***************************************************************************)
(* The program run on a roster of reputation trackers followed by          *)
(* never-accept/always-defect agents, in the runs in which no draw of such *)
(* an agent is 0.0: as a lender it rejects and as a borrower it defects.   *)
(***************************************************************************)
TrackerFactories == {"reptrack", "reptrack_pessimistic"}

\* the rosters whose entries are trackers first and never-accept/always-defect
\* agents after them
DefectorRosters ==
    {defs \in Rosters :
        /\ \A k \in DOMAIN defs :
              defs[k][1] \in TrackerFactories \cup {"never_accept_always_defect"}
        /\ \A j, k \in DOMAIN defs :
              (j < k /\ defs[k][1] \in TrackerFactories) => defs[j][1] \in TrackerFactories}

IsDefector(agent) ==
    /\ agent.strategy.variant = "RandomStrategy"
    /\ agent.strategy.accept_prob = 0
    /\ agent.strategy.coop_prob = 0

\* in the last encounter no never-accept/always-defect agent accepted as the
\* lender or cooperated as the borrower
Scripted ==
    (log # << >> /\ <<last.lender, last.borrower>> = log[Len(log)]) =>
        /\ IsDefector(agents[last.lender]) => ~last.accepted
        /\ (IsDefector(agents[last.borrower]) /\ last.accepted) => last.coop # COOP

InitScripted ==
    /\ agent_definitions \in DefectorRosters
    /\ rounds \in 0 .. MaxScriptedRounds
    /\ agents = << >>
    /\ pc = "gen"
    /\ round = 0
    /\ i = 0
    /\ bob = 0
    /\ last = NoEncounter
    /\ log = << >>
    /\ reports = 0
    /\ defects = << >>
    /\ removed = << >>
    /\ call = NoCall
    /\ twin = << >>
    /\ origin = << >>
    /\ dead = {}
    /\ tally = << >>
    /\ robbed = {}

ScriptedAliceBob == AliceBob /\ Scripted'

ScriptedBobAlice == BobAlice /\ Scripted'

NextScripted == Gen \/ Report \/ ScriptedAliceBob \/ ScriptedBobAlice \/ Retain

SpecScripted == InitScripted /\ [][NextScripted]_allvars

(***************************************************************************)
(* The methods of the Strategy trait called directly, in any order and     *)
(* with any peer id, on one strategy as its factory made it: the strategy  *)
(* under test is that of the only agent, agents[1].  The calls that change *)
(* a score are made while the score stays within MaxScore.                 *)
(***************************************************************************)
PeerIds == 0 .. MaxPeer

InitCalls ==
    /\ agent_definitions = << >>
    /\ rounds = 0
    /\ \E factory \in Factories :
          agents = <<Agent(MakeStrategy(factory), InitialEnergy, 0)>>
    /\ pc = "call"
    /\ round = 0
    /\ i = 0
    /\ bob = 0
    /\ last = NoEncounter
    /\ log = << >>
    /\ reports = 0
    /\ defects = <<{}>>
    /\ removed = << >>
    /\ call = NoCall
    /\ twin = << >>
    /\ origin = <<1>>
    /\ dead = {}
    /\ tally = NoTally(agents)
    /\ robbed = {}

simstate == <<agent_definitions, rounds, pc, round, i, bob, last, log, reports,
              defects, removed, twin, history>>

WithinMaxScore(strategy) ==
    \A p \in DOMAIN strategy.reputations :
        /\ strategy.reputations[p] <= MaxScore
        /\ strategy.reputations[p] >= -MaxScore

CallAcceptOrReject ==
    /\ pc = "call"
    /\ \E peer \in PeerIds, draw \in Draws :
          call' = [method |-> "accept_or_reject_request", peer |-> peer,
                   draw |-> draw, coop |-> FALSE,
                   returned |-> accept_or_reject_request(agents[1].strategy, peer, draw)]
    /\ UNCHANGED <<agents, simstate>>

CallNotifyAboutRejection ==
    /\ pc = "call"
    /\ \E peer \in PeerIds :
          /\ agents' = [agents EXCEPT ![1].strategy = notify_about_rejection(@, peer)]
          /\ call' = [method |-> "notify_about_rejection", peer |-> peer,
                      draw |-> 0, coop |-> FALSE, returned |-> FALSE]
    /\ UNCHANGED simstate

CallCoopOrDefect ==
    /\ pc = "call"
    /\ \E peer \in PeerIds, draw \in Draws :
          LET decision == coop_or_defect(agents[1].strategy, peer, draw)
          IN  /\ WithinMaxScore(decision.strategy)
              /\ agents' = [agents EXCEPT ![1].strategy = decision.strategy]
              /\ call' = [method |-> "coop_or_defect", peer |-> peer,
                          draw |-> draw, coop |-> FALSE,
                          returned |-> decision.action]
    /\ UNCHANGED simstate

CallNotifyCoopOrDefect ==
    /\ pc = "call"
    /\ \E peer \in PeerIds, coop \in BOOLEAN :
          LET after == notify_coop_or_defect(agents[1].strategy, peer, coop)
          IN  /\ WithinMaxScore(after)
              /\ agents' = [agents EXCEPT ![1].strategy = after]
              /\ call' = [method |-> "notify_coop_or_defect", peer |-> peer,
                          draw |-> 0, coop |-> coop, returned |-> FALSE]
    /\ UNCHANGED simstate

NextCalls ==
    \/ CallAcceptOrReject
    \/ CallNotifyAboutRejection
    \/ CallCoopOrDefect
    \/ CallNotifyCoopOrDefect

SpecCalls == InitCalls /\ [][NextCalls]_allvars

(***************************************************************************)
(* Properties.                                                             *)
(***************************************************************************)
\* an encounter is about to be made
Encountering == pc \in {"alice_bob", "bob_alice"}
\* the positions of the lender and the borrower of the encounter about to be made
NextLender == IF pc = "alice_bob" THEN i ELSE bob
NextBorrower == IF pc = "alice_bob" THEN bob ELSE i
\* `last` describes an encounter of the round in progress, so its positions
\* name agents of the population as it is now: the round has made an encounter
\* (the report empties log, and retain comes before the next report), and
\* `last` is the latest of them
LastIsCurrent ==
    /\ pc \in {"alice_bob", "bob_alice", "retain"}
    /\ log # << >>
    /\ <<last.lender, last.borrower>> = log[Len(log)]

IsTracker(agent) == agent.strategy.variant = "ReputationTracker"

\* C1: every encounter changes the lender's energy by -1 and the borrower's by
\* +3 when it is accepted and the borrower cooperates, by -7 and +6 when it is
\* accepted and the borrower defects, and changes neither when it is rejected;
\* no other agent's energy changes, and the report changes no energy at all.
C1_EnergyDeltas ==
    [][/\ Encountering =>
            LET l == NextLender
                b == NextBorrower
                dl == agents'[l].energy - agents[l].energy
                db == agents'[b].energy - agents[b].energy
            IN  /\ DOMAIN agents' = DOMAIN agents
                /\ last'.lender = l /\ last'.borrower = b
                /\ (last'.accepted /\ last'.coop) => (dl = -1 /\ db = 3)
                /\ (last'.accepted /\ ~last'.coop) => (dl = -7 /\ db = 6)
                /\ ~last'.accepted => (dl = 0 /\ db = 0)
                /\ \A k \in DOMAIN agents \ {l, b} :
                        agents'[k].energy = agents[k].energy
       /\ pc = "report" => agents' = agents
      ]_allvars

\* an encounter was accepted and the borrower defected: the lender paid 7
C1_Witness ==
    /\ LastIsCurrent
    /\ last.accepted /\ ~last.coop
    /\ agents[last.lender].energy = InitialEnergy - 7
    /\ agents[last.borrower].energy = InitialEnergy + 6

\* C2: no two agents of the population have the same id.
C2_UniqueIds ==
    \A a, b \in DOMAIN agents : a # b => agents[a].id # agents[b].id

\* The pairs (a, b) with a < b among n positions, and their place in the
\* lexicographic order.
Pairs(n) == {p \in (1 .. n) \X (1 .. n) : p[1] < p[2]}
LexLess(p, q) == p[1] < q[1] \/ (p[1] = q[1] /\ p[2] < q[2])
Rank(n, p) == 1 + Cardinality({q \in Pairs(n) : LexLess(q, p)})
\* the encounters of a round of n agents, as (lender, borrower), in order
ExpectedLog(n) ==
    [m \in 1 .. (n * (n - 1)) |->
        LET pair == CHOOSE p \in Pairs(n) : Rank(n, p) = (m + 1) \div 2
        IN  IF m % 2 = 1 THEN pair ELSE <<pair[2], pair[1]>>]

\* C3: the encounters of a round are made in the lexicographic order of the
\* pairs (i, j), i < j, each pair as (i lends to j) then (j lends to i); when
\* the pairs are done every agent has lent exactly once to every other agent.
C3_EncounterOrder ==
    pc \in {"alice_bob", "bob_alice", "retain"} =>
        LET expected == ExpectedLog(Len(agents))
        IN  /\ Len(log) <= Len(expected)
            /\ log = SubSeq(expected, 1, Len(log))
            /\ pc = "alice_bob" => Len(log) % 2 = 0 /\ Len(log) < Len(expected)
            /\ pc = "bob_alice" => Len(log) % 2 = 1
            /\ pc = "retain" =>
                 /\ log = expected
                 /\ \A a, b \in DOMAIN agents :
                        a # b => Cardinality({m \in DOMAIN log : log[m] = <<a, b>>}) = 1

\* a round of three agents is through its six encounters
C3_Witness ==
    /\ pc = "retain"
    /\ Len(agents) = 3
    /\ log = << <<1, 2>>, <<2, 1>>, <<1, 3>>, <<3, 1>>, <<2, 3>>, <<3, 2>> >>

\* C4: the retain at the end of a round leaves exactly the agents whose
\* energy is greater than 0, unchanged and in their order; an agent at 0 or
\* below is dropped, and no step adds an agent.
C4_Culling ==
    [][/\ pc = "retain" =>
            LET keep == {k \in DOMAIN agents : agents[k].energy > 0}
            IN  /\ Len(agents') = Cardinality(keep)
                /\ \A k \in keep :
                      agents'[Cardinality({j \in keep : j <= k})] = agents[k]
                /\ \A k \in DOMAIN agents' : agents'[k].energy >= 1
       /\ pc # "retain" => Len(agents') = Len(agents)
      ]_allvars

\* the retain of the first round dropped an agent at exactly 0 and kept two,
\* one of them at energy 1
C4_Witness ==
    /\ pc = "report"
    /\ round = 1
    /\ Len(agents) = 2
    /\ Len(removed) = 1
    /\ removed[1].energy = 0
    /\ \E k \in DOMAIN agents : agents[k].energy = 1

\* the ids of the population
Ids == {agents[k].id : k \in DOMAIN agents}
Recorded(agent, p) == p \in DOMAIN agent.strategy.reputations
\* the score an agent's strategy holds for the id p, an absent entry counting as 0
Score(agent, p) == IF Recorded(agent, p) THEN agent.strategy.reputations[p] ELSE 0

\* C5 as stated: while a reputation tracker has been told of no defection by
\* the id p, the score it has recorded for p does not decrease over an encounter.
C5_NeverDecreases ==
    [][Encountering =>
         \A k \in DOMAIN agents : \A p \in Ids :
            (/\ IsTracker(agents[k])
             /\ p \notin defects'[k]
             /\ Recorded(agents[k], p))
            => agents'[k].strategy.reputations[p] >= agents[k].strategy.reputations[p]
      ]_allvars

\* C5 as amended: while a reputation tracker L has been told of no defection by
\* the id p, an encounter changes its score for p by -1 exactly when L lends
\* to an agent of id p (who cooperates), by +3 exactly when L borrows from an
\* agent of id p, and otherwise not at all; an entry is never dropped.
C5_ScoreSteps ==
    [][Encountering =>
         \A k \in DOMAIN agents : \A p \in Ids :
            (IsTracker(agents[k]) /\ p \notin defects'[k]) =>
                LET d == Score(agents'[k], p) - Score(agents[k], p)
                IN  /\ d \in {-1, 0, 3}
                    /\ d = -1 <=> /\ k = NextLender
                                  /\ agents[NextBorrower].id = p
                                  /\ last'.accepted
                    /\ d = 3 <=> /\ k = NextBorrower
                                 /\ agents[NextLender].id = p
                                 /\ last'.accepted
                    /\ Recorded(agents[k], p) => Recorded(agents'[k], p)
      ]_allvars

\* a tracker that was never told of a defection by the borrower has just been
\* told of a cooperation, which took its score for the borrower from 3 to 2
C5_Witness ==
    /\ LastIsCurrent
    /\ last.accepted /\ last.coop
    /\ IsTracker(agents[last.lender])
    /\ agents[last.borrower].id \notin defects[last.lender]
    /\ Score(agents[last.lender], agents[last.borrower].id) = 2

\* the strategy the methods are called on directly
Tested == agents[1].strategy

\* C6: ReputationTracker::accept_or_reject_request(peer) returns Accept when
\* no score is recorded for peer and optimistic is true, when the score is
\* above 0, and when the score is 0 and optimistic is true; it returns Reject
\* in every other case.
C6_AcceptCases ==
    (call.method = "accept_or_reject_request" /\ Tested.variant = "ReputationTracker") =>
        LET recorded == call.peer \in DOMAIN Tested.reputations
            score == Tested.reputations[call.peer]
        IN  /\ (~recorded /\ Tested.optimistic) => call.returned = ACCEPT
            /\ (recorded /\ score > 0) => call.returned = ACCEPT
            /\ (recorded /\ score = 0 /\ Tested.optimistic) => call.returned = ACCEPT
            /\ (recorded /\ score < 0) => call.returned = REJECT
            /\ (~recorded /\ ~Tested.optimistic) => call.returned = REJECT
            /\ (recorded /\ score = 0 /\ ~Tested.optimistic) => call.returned = REJECT

\* a tracker that is not optimistic and holds a score of exactly 0 for the
\* peer has rejected it
C6_Witness ==
    /\ call.method = "accept_or_reject_request"
    /\ Tested.variant = "ReputationTracker"
    /\ ~Tested.optimistic
    /\ call.peer \in DOMAIN Tested.reputations
    /\ Tested.reputations[call.peer] = 0
    /\ call.returned = REJECT

\* C7: an encounter whose lender is a reputation tracker holding a negative
\* score for the borrower's id is rejected, and a rejected encounter changes
\* neither an energy nor a reputation map (nor anything else of an agent).
C7_RejectedFrame ==
    [][Encountering =>
         /\ (/\ IsTracker(agents[NextLender])
             /\ Recorded(agents[NextLender], agents[NextBorrower].id)
             /\ Score(agents[NextLender], agents[NextBorrower].id) < 0)
            => ~last'.accepted
         /\ ~last'.accepted => agents' = agents
      ]_allvars

\* a tracker holding a negative score for the borrower's id has rejected it
C7_Witness ==
    /\ LastIsCurrent
    /\ ~last.accepted
    /\ IsTracker(agents[last.lender])
    /\ IsTracker(agents[last.borrower])
    /\ Recorded(agents[last.lender], agents[last.borrower].id)
    /\ Score(agents[last.lender], agents[last.borrower].id) < 0

\* C8: simulate ends, after exactly `rounds` rounds (each reported once),
\* whatever the population and the decisions; a round of a population of one
\* agent or none is run all the same and has no encounter.
C8_RunsAllRounds ==
    /\ <>(pc = "done")
    /\ [](pc = "done" => round = rounds /\ reports = rounds)
    /\ []((pc = "retain" /\ Len(agents) <= 1) => log = << >>)
    /\ []((pc = "report" /\ Len(agents) <= 1) => round < rounds)

\* the population died out in the first round, and the second round was run
\* on the empty population without an encounter
C8_Witness ==
    /\ pc = "done"
    /\ rounds = 2
    /\ round = 2
    /\ reports = 2
    /\ agents = << >>
    /\ last.lender # 0
    /\ log = << >>

\* every agent of both runs is a reputation tracker
TrackersOnly ==
    /\ \A k \in DOMAIN agents : IsTracker(agents[k])
    /\ \A k \in DOMAIN twin : IsTracker(twin[k])

\* C9: two runs from the same roster and round count whose agents are all
\* reputation trackers have the same population (ids, energies, reputation
\* maps) after every step.
C9_SameRuns == (pc # "gen" /\ TrackersOnly) => twin = agents

\* two runs of three trackers are through two rounds in which energy moved
C9_Witness ==
    /\ pc = "done"
    /\ round = 2
    /\ Len(agents) = 3
    /\ TrackersOnly
    /\ twin = agents
    /\ \E k \in DOMAIN agents : agents[k].energy # InitialEnergy

\* C10: a RandomStrategy of accept_prob 0 and coop_prob 0 returns Reject from
\* every accept_or_reject_request and Defect from every coop_or_defect,
\* whatever the draw.
C10_NeverAcceptsNeverCooperates ==
    (/\ Tested.variant = "RandomStrategy"
     /\ Tested.accept_prob = 0
     /\ Tested.coop_prob = 0)
    => /\ call.method = "accept_or_reject_request" => call.returned = REJECT
       /\ call.method = "coop_or_defect" => call.returned # COOP

\* the two-agent population of an optimistic reputation tracker A followed by
\* a never-accept/always-defect RandomStrategy B
ScenarioAB ==
    /\ Len(agents) = 2
    /\ IsTracker(agents[1]) /\ agents[1].strategy.optimistic
    /\ agents[2].strategy.variant = "RandomStrategy"
    /\ agents[2].strategy.accept_prob = 0
    /\ agents[2].strategy.coop_prob = 0

\* C11: in the population of A (optimistic reputation tracker) and B
\* (RandomStrategy 0/0), in every round B as lender rejects A, no encounter
\* applies the cooperative payouts (-1 to the lender, +3 to the borrower), and
\* every pair of energy changes is one of the rows of the encounter's table.
C11_NoCooperativePayouts ==
    [][(Encountering /\ ScenarioAB) =>
          LET l == NextLender
              b == NextBorrower
              dl == agents'[l].energy - agents[l].energy
              db == agents'[b].energy - agents[b].energy
          IN  /\ l = 2 => ~last'.accepted
              /\ ~(last'.accepted /\ last'.coop)
              /\ <<dl, db>> # <<lender_coop_payout, borrower_coop_payout>>
              /\ <<dl, db>> \in {<<0, 0>>,
                                 <<lender_coop_payout, borrower_coop_payout>>,
                                 <<lender_defect_payout, borrower_defect_payout>>}
      ]_allvars

\* C12: for every reputation tracker T and peer id p, T's score for p is
\* 3 x (accepted encounters in which T borrowed from a lender of id p)
\* - 1 x (cooperations T was told of as lender to id p)
\* - 7 x (defections T was told of as lender to id p); the entry for p is
\* absent exactly when the three counts are zero; and an entry, once there,
\* stays for as long as T is in the population.
C12_ScoreLedger ==
    /\ [](\A k \in DOMAIN agents :
            IsTracker(agents[k]) =>
                /\ DOMAIN agents[k].strategy.reputations \subseteq DOMAIN tally[k]
                /\ \A p \in DOMAIN tally[k] :
                      LET t == tally[k][p]
                      IN  /\ Score(agents[k], p) =
                                borrower_coop_payout * t.borrowed
                                + lender_coop_payout * t.coop
                                + lender_defect_payout * t.defect
                          /\ ~Recorded(agents[k], p) <=>
                                (t.borrowed = 0 /\ t.coop = 0 /\ t.defect = 0))
    /\ [][\A k \in DOMAIN agents : \A j \in DOMAIN agents' :
            (IsTracker(agents[k]) /\ origin'[j] = origin[k]) =>
                \A p \in DOMAIN agents[k].strategy.reputations :
                    Recorded(agents'[j], p)
         ]_allvars

\* a tracker borrowed once from an agent of id p, and as lender to it was told
\* of one cooperation and then of one defection: its score for p is 3 - 1 - 7
C12_Witness ==
    \E k \in DOMAIN agents : \E p \in DOMAIN tally[k] :
        /\ IsTracker(agents[k])
        /\ tally[k][p] = [borrowed |-> 1, coop |-> 1, defect |-> 1]
        /\ Recorded(agents[k], p)
        /\ agents[k].strategy.reputations[p] = -5

\* C13: an accepted encounter whose borrower is a reputation tracker ends in
\* cooperation, whatever score the borrower holds for the lender's id
\* (negative, absent or other) and whatever its optimistic flag.
C13_TrackerCooperates ==
    [][(Encountering /\ IsTracker(agents[NextBorrower]) /\ last'.accepted)
          => last'.coop = COOP
      ]_allvars

\* a tracker that is not optimistic and held a negative score (-4) for the
\* lender's id has borrowed from it and cooperated
C13_Witness ==
    /\ LastIsCurrent
    /\ last.accepted /\ last.coop
    /\ IsTracker(agents[last.borrower])
    /\ ~agents[last.borrower].strategy.optimistic
    /\ Score(agents[last.borrower], agents[last.lender].id) = -1
    /\ tally[last.borrower][agents[last.lender].id] =
            [borrowed |-> 2, coop |-> 0, defect |-> 1]

\* C14: no agent leaves the population while the encounters of a round are in
\* progress: whatever the energies, the next encounter is the next of the
\* round's full list, so an agent at 0 or below mid-round still lends to and
\* borrows from every other agent; and an agent whose energy is 0 or less when
\* the pairs of a round are done is in no later population, so in no later
\* encounter.
C14_RemovedOnlyBetweenRounds ==
    /\ [][pc # "retain" => origin' = origin /\ Len(agents') = Len(agents)]_allvars
    /\ [](Encountering =>
            /\ Len(log) < Len(ExpectedLog(Len(agents)))
            /\ ExpectedLog(Len(agents))[Len(log) + 1] = <<NextLender, NextBorrower>>
            /\ origin[NextLender] \notin dead
            /\ origin[NextBorrower] \notin dead)
    /\ [](pc = "retain" => log = ExpectedLog(Len(agents)))
    /\ [](pc # "retain" => \A k \in DOMAIN agents : origin[k] \notin dead)

\* in the second round, after an agent was removed, an agent that had dropped
\* to 0 or below by lending went on to borrow
C14_Witness ==
    /\ LastIsCurrent
    /\ round = 1
    /\ dead # {}
    /\ last.accepted
    /\ agents[last.borrower].energy - borrower_gain(last.coop) <= 0

\* C15: a round is a report, then its encounters, then the culling.  The
\* report of round r is made once: before every encounter of round r, after
\* the culling of round r - 1 (so every agent it counts has energy above 0),
\* and it changes no agent; when simulate is done, `rounds` reports were made.
C15_PhaseOrder ==
    /\ [](pc = "report" =>
            /\ reports = round
            /\ round < rounds
            /\ \A k \in DOMAIN agents : agents[k].energy > 0
            /\ \A st \in DOMAIN report(agents) : report(agents)[st].sum > 0)
    /\ [](pc \in {"alice_bob", "bob_alice", "retain"} =>
            /\ reports = round + 1
            /\ round < rounds)
    /\ [](pc = "done" => reports = rounds /\ round = rounds)
    /\ [][/\ pc = "report" =>
               /\ pc' \in {"alice_bob", "retain"}
               /\ reports' = reports + 1
               /\ log' = << >>
               /\ agents' = agents /\ round' = round
          /\ Encountering =>
               /\ pc' \in {"alice_bob", "bob_alice", "retain"}
               /\ reports' = reports /\ round' = round
               /\ Len(log') = Len(log) + 1
          /\ pc = "retain" =>
               /\ pc' \in {"report", "done"}
               /\ reports' = reports /\ round' = round + 1
          /\ pc = "done" => FALSE
         ]_allvars

\* the report of the second round has been made, after the culling of the
\* first round removed an agent and before the round's first encounter
C15_Witness ==
    /\ pc = "alice_bob"
    /\ round = 1
    /\ reports = 2
    /\ log = << >>
    /\ removed # << >>
    /\ Len(agents) = 2

\* every agent of the population is an optimistic reputation tracker
AllOptimistic ==
    \A k \in DOMAIN agents : IsTracker(agents[k]) /\ agents[k].strategy.optimistic

\* C16: in a population of n optimistic reputation trackers every encounter
\* is accepted and ends in cooperation, no agent is removed, and after k
\* rounds every agent's energy is 256 + 2k(n - 1).
C16_AllOptimistic ==
    /\ []((pc # "gen" /\ AllOptimistic) =>
            LET n == Len(agents)
            IN  /\ LastIsCurrent => (last.accepted /\ last.coop = COOP)
                /\ removed = << >> /\ dead = {}
                /\ pc \in {"report", "done"} =>
                      \A k \in DOMAIN agents :
                          agents[k].energy = InitialEnergy + 2 * round * (n - 1)
                /\ pc = "retain" =>
                      \A k \in DOMAIN agents :
                          agents[k].energy = InitialEnergy + 2 * (round + 1) * (n - 1))
    /\ [][(pc # "gen" /\ AllOptimistic) =>
             (Len(agents') = Len(agents) /\ origin' = origin)]_allvars

\* three optimistic trackers are through two rounds, each at 256 + 2 * 2 * 2
C16_Witness ==
    /\ pc = "done"
    /\ round = 2
    /\ Len(agents) = 3
    /\ AllOptimistic
    /\ last.accepted /\ last.coop
    /\ \A k \in DOMAIN agents : agents[k].energy = 264

\* every agent of the population is a reputation tracker that is not optimistic
AllPessimistic ==
    \A k \in DOMAIN agents : IsTracker(agents[k]) /\ ~agents[k].strategy.optimistic

\* C18: in a population of reputation trackers that are not optimistic every
\* encounter is rejected, every energy stays 256, every reputation map stays
\* empty, and no step changes the population.
C18_AllPessimistic ==
    /\ []((pc # "gen" /\ AllPessimistic) =>
            /\ LastIsCurrent => ~last.accepted
            /\ removed = << >> /\ dead = {}
            /\ \A k \in DOMAIN agents :
                  /\ agents[k].energy = InitialEnergy
                  /\ agents[k].strategy.reputations = NoReputations
                  /\ origin[k] = k)
    /\ [][(pc # "gen" /\ AllPessimistic) => agents' = agents]_allvars

\* three trackers that are not optimistic are through two rounds of six
\* rejected encounters each
C18_Witness ==
    /\ pc = "done"
    /\ round = 2
    /\ Len(agents) = 3
    /\ AllPessimistic
    /\ last.lender # 0 /\ ~last.accepted
    /\ Len(log) = 6
    /\ \A k \in DOMAIN agents : agents[k].energy = InitialEnergy

\* C17: in a population built from a roster of reputation trackers followed
\* by never-accept/always-defect agents whose draws never accept or
\* cooperate, a tracker that such an agent has defected on rejects every
\* later request of that agent, so the agent gets the +6 of a defection from
\* each tracker at most once.
C17_RobbedAtMostOnce ==
    [][(/\ Encountering
        /\ IsTracker(agents[NextLender])
        /\ IsDefector(agents[NextBorrower])
        /\ <<origin[NextLender], origin[NextBorrower]>> \in robbed)
       => ~last'.accepted
      ]_allvars

====
